---- MODULE Spec2Model ----
(***************************************************************************)
(* Verification model of littlespace/vidar.                                *)
(*                                                                         *)
(*  - gosyntax.Highlight: repositioning of highlight spans after edits     *)
(*    (Applied / moveLayer / moveSpan).                                    *)
(*  - navigator.ProjectTree: the file-system watcher, the single-slot      *)
(*    reload gate of update, directory.update / directory.reload.          *)
(*  - navigator.TOC: the outline tree and TOC.Reload.                      *)
(*  - editor.TabbedEditor: the editors map and the panels of the tabs.     *)
(*  - commands.ProjectOpener: Exec.                                        *)
(*                                                                         *)
(* An input.Edit is modelled by its position and the lengths of its Old    *)
(* and New texts: the code only ever reads e.At, len(e.Old), len(e.New).   *)
(***************************************************************************)
EXTENDS Integers, Sequences, FiniteSets, TLC

\* ------------------------------------------------------------------------
\* Bounds of the model
\* ------------------------------------------------------------------------

\* largest offset of a span boundary in an initial layer store and of an edit
MaxPos == 1

\* largest length of the Old and of the New text of an edit
MaxLen == 1

\* largest number of edits in one batch
MaxEdits == 2

\* number of file-system events, one update goroutine each
MaxEvents == 3

\* largest number of subdirectories of a directory
MaxKids == 1

\* number of clicks on directory buttons
MaxClicks == 1

\* number of packages a directory can hold
MaxPkgs == 2

\* number of Reload calls on one outline
MaxReloads == 1

\* largest number of declarations in the first file of a package
MaxDecls == 2

\* largest number of statements in the body of the function of a source text
MaxStmts == 2

\* number of file names an editor can be opened or renamed to
MaxNames == 3

\* number of editors opened in the tabbed editor
MaxEditors == 2

\* number of renames of opened files
MaxRenames == 2

\* largest number of projects in the settings
MaxProjects == 2

\* largest number of blanks before the word range in a range statement
MaxGap == 2

VARIABLES
    layers,      \* the editor's syntax layers (e.SyntaxLayers())
    oldLayers,   \* the layers before the last Applied call
    edits,       \* the batch of edits handed to Applied
    hpc,         \* position of the highlighter: "idle" or "applied"
    reloadLock,  \* number of tokens in the channel p.reloadLock
    pc,          \* position of each update goroutine
    upath,       \* the path argument of each update goroutine
    driverQ,     \* calls queued on the UI driver, oldest first
    fsDirs,      \* file system: number of subdirectories of each directory
    fsPkgs,      \* file system: the packages found in each directory
    length,      \* directory.length of each displayed directory
    attached,    \* d.tree.Attached() of each displayed directory
    kids,        \* number of children shown by d.tree when attached
    toc,         \* p.toc: NoTOC or [dir, children]
    tocSeen,     \* the packages ParseDir found in the last Reload of p.toc
    spawned,     \* number of update goroutines started by watch
    clicks,      \* number of clicks on directory buttons so far
    missed,      \* directories below the root with an event dropped since their last reload
    dropSeen,    \* number of goroutines started when the first event was dropped
    reloads,     \* number of Reload calls on the outline since it was built
    srcPkg,      \* the *ast.Package handed to parsePkg
    pkgOrder,    \* the order in which parsePkg visits the files of srcPkg
    outline,     \* the node parsePkg returned
    opc,         \* position of the outline builder: "idle" or "parsed"
    text,        \* editor.Text(): a source text, parseable or not
    syn,         \* h.syntax: the state of the Syntax after its last Parse
    hLayers,     \* h.layers
    lastGood,    \* the layers computed by the last successful parse
    wpc,         \* position of the highlighter: "init", "changed" or "applied"
    editors,     \* e.editors: the editor of each name
    holder,      \* the embedded PanelHolder: [entries, selected]
    codeEditors, \* the CodeEditors created by Open: [name, path] each
    tabQ,        \* rename callbacks queued on the UI driver, oldest first
    renames,     \* number of renames so far
    projects,    \* settings.Projects()
    nameText,    \* p.name.Text()
    element,     \* the element handed to Exec: is it a projectSetter
    setCalls,    \* the projects SetProject was called with
    execRet,     \* what Exec returned: <<executed, consume>>
    epc          \* position of the command: "start" or "done"

spanVars == <<layers, oldLayers, edits, hpc>>

fsVars == <<fsDirs, fsPkgs>>

dirVars == <<length, attached, kids>>

tocVars == <<toc, tocSeen, reloads>>

procVars == <<reloadLock, pc, upath, driverQ, spawned, clicks>>

ghostVars == <<missed, dropSeen>>

treeVars == <<fsVars, dirVars, tocVars, procVars, ghostVars>>

outVars == <<srcPkg, pkgOrder, outline, opc>>

\* the variables of neither the repositioner nor the project tree
walkVars == <<text, syn, hLayers, lastGood, wpc>>

tabVars == <<editors, holder, codeEditors, tabQ, renames>>

openerVars == <<projects, nameText, element, setCalls, execRet, epc>>

uiVars == <<tabVars, openerVars>>

otherVars == <<outVars, walkVars, uiVars>>

vars == <<spanVars, treeVars, otherVars>>

\* ------------------------------------------------------------------------
\* input.Span, input.Edit, input.SyntaxLayer
\* ------------------------------------------------------------------------

Span == [Start : 0..MaxPos, End : 0..MaxPos]

ValidSpans == {s \in Span : s.Start <= s.End}

\* an edit: position, len(Old), len(New)
Edit == [At : 0..MaxPos, Old : 0..MaxLen, New : 0..MaxLen]

RECURSIVE SeqsUpTo(_, _)
SeqsUpTo(S, n) ==
    IF n = 0 THEN {<<>>}
    ELSE LET shorter == SeqsUpTo(S, n - 1)
         IN  shorter \cup {Append(q, x) : q \in {r \in shorter : Len(r) = n - 1}, x \in S}

Batches == SeqsUpTo(Edit, MaxEdits)

\* spans of one layer as a parse produces them: in source order, not overlapping
SortedSpanSeqs ==
    {q \in SeqsUpTo(ValidSpans, 2) :
        \A i \in 1..(Len(q) - 1) : q[i].End <= q[i + 1].Start}

Categories == <<"keyword", "string">>

\* the layer stores a parse can have handed to the editor: one layer of up
\* to two spans, or two layers of one span each
Stores ==
    {<<[cat |-> Categories[1], spans |-> ks]>> : ks \in SortedSpanSeqs}
    \cup
    {<<[cat |-> Categories[1], spans |-> <<ks[1]>>],
       [cat |-> Categories[2], spans |-> <<ks[2]>>]>> :
        ks \in {q \in SortedSpanSeqs : Len(q) = 2}}

\* ------------------------------------------------------------------------
\* Highlight.moveSpan
\* ------------------------------------------------------------------------

editDeltaSwapped(e) == e.Old - e.New

\* delta := len(e.New) - len(e.Old)
editDelta(e) == e.New - e.Old

beyondEndOffByOne(e, s) == e.At > s.End + 1

\* if e.At > s.End
beyondEnd(e, s) == e.At > s.End

afterStartInclusive(e, s) == e.At >= s.Start

\* if e.At > s.Start
afterStart(e, s) == e.At > s.Start

clampToNone(v, at) == v

\* if v < e.At { v = e.At }
clampTo(v, at) == IF v < at THEN at ELSE v

\* the body of the loop for one edit that is not beyond the span's end
moveSpanOne(s, e) ==
    LET delta == editDelta(e)
        s1    == [s EXCEPT !.End = clampTo(s.End + delta, e.At)]
    IN  IF delta = 0 THEN s
        ELSE IF afterStart(e, s) THEN s1
        ELSE [s1 EXCEPT !.Start = clampTo(s.Start + delta, e.At)]

RECURSIVE moveSpan(_, _)
moveSpan(s, es) ==
    IF es = <<>> THEN s
    ELSE IF beyondEnd(Head(es), s) THEN s
    ELSE moveSpan(moveSpanOne(s, Head(es)), Tail(es))

moveLayerDropEmpty(l, es) ==
    [l EXCEPT !.spans =
        SelectSeq([i \in 1..Len(l.spans) |-> moveSpan(l.spans[i], es)],
                  LAMBDA s : s.Start < s.End)]

\* Highlight.moveLayer
moveLayer(l, es) ==
    [l EXCEPT !.spans = [i \in 1..Len(l.spans) |-> moveSpan(l.spans[i], es)]]

\* Highlight.Applied: every layer of the editor is moved and handed back
Applied ==
    /\ hpc = "idle"
    /\ oldLayers' = layers
    /\ layers' = [i \in 1..Len(layers) |-> moveLayer(layers[i], edits)]
    /\ hpc' = "applied"
    /\ UNCHANGED <<edits, treeVars, otherVars>>

\* ------------------------------------------------------------------------
\* Paths: a path is the sequence of its characters
\* ------------------------------------------------------------------------

RootPath == <<"/", "r">>

DirA == <<"/", "r", "/", "a">>

DirB == <<"/", "r", "/", "b">>

\* the directories loaded below the root of the project tree
SubDirs == {DirA, DirB}

AllDirs == {RootPath} \cup SubDirs

\* the paths the watcher reports: an entry of each directory below the root
EventPaths == {d \o <<"/", "k">> : d \in SubDirs}

\* strings.HasPrefix
HasPrefix(str, prefix) ==
    /\ Len(prefix) <= Len(str)
    /\ SubSeq(str, 1, Len(prefix)) = prefix

\* index of the last separator of a path (0 if there is none)
LastSep(path) ==
    LET seps == {i \in 1..Len(path) : path[i] = "/"}
    IN  IF seps = {} THEN 0 ELSE CHOOSE i \in seps : \A j \in seps : j <= i

\* filepath.Dir on the cleaned, absolute paths of the watcher
Dir(path) ==
    IF LastSep(path) <= 1 THEN <<"/">> ELSE SubSeq(path, 1, LastSep(path) - 1)

\* ------------------------------------------------------------------------
\* ProjectTree: gate, update goroutines, UI driver
\* ------------------------------------------------------------------------

ReloadLockCapTwo == 1 + 1

\* make(chan struct{}, 1)
ReloadLockCap == 1

Goroutines == 1..MaxEvents

\* the packages that can be found in a directory
PkgIds == 1..MaxPkgs

NoTOC == [dir |-> <<>>, children |-> <<>>]

\* positions of update at which the goroutine holds the gate
Holding == {"waitDirs", "dirsDone", "waitToc", "return"}

\* a call queued on the driver; live is FALSE once the outline the call is
\* bound to has been replaced and is no longer displayed
call(kind, g, dir, live) == [kind |-> kind, g |-> g, dir |-> dir, live |-> live]

\* d.tree.Dirs(): the directory objects below a directory of the tree
Dirs(d) == IF d = RootPath THEN <<DirA, DirB>> ELSE <<>>

RECURSIVE directoryUpdateNoDir(_, _)
directoryUpdateNoDir(d, path) ==
    LET RECURSIVE overDirs(_)
        overDirs(ds) ==
            IF ds = <<>> THEN <<>>
            ELSE directoryUpdateNoDir(Head(ds), path) \o overDirs(Tail(ds))
    IN  IF ~HasPrefix(path, d) THEN <<>>
        ELSE IF d = path THEN <<d>>
        ELSE overDirs(Dirs(d))

\* directory.update: the directories whose reload it hands to driver.Call,
\* in the order of the calls
RECURSIVE directoryUpdate(_, _)
directoryUpdate(d, path) ==
    LET RECURSIVE overDirs(_)
        overDirs(ds) ==
            IF ds = <<>> THEN <<>>
            ELSE directoryUpdate(Head(ds), path) \o overDirs(Tail(ds))
    IN  IF ~HasPrefix(path, d) THEN <<>>
        ELSE IF d = Dir(path) THEN <<d>>
        ELSE overDirs(Dirs(d))

\* watch: a subdirectory is created in (or the subdirectories are removed
\* from) a directory below the root and the watcher reports it; watch starts
\* update(path) in a goroutine of its own
FsEvent(path) ==
    /\ spawned < MaxEvents
    /\ fsDirs' = [fsDirs EXCEPT ![Dir(path)] = (@ + 1) % (MaxKids + 1)]
    /\ UNCHANGED fsPkgs
    /\ spawned' = spawned + 1
    /\ pc' = [pc EXCEPT ![spawned + 1] = "start"]
    /\ upath' = [upath EXCEPT ![spawned + 1] = path]
    /\ UNCHANGED <<spanVars, otherVars, dirVars, tocVars, reloadLock, driverQ, clicks, ghostVars>>

UpdateBailNoReturn(g) ==
    /\ pc[g] = "start"
    /\ reloadLock >= ReloadLockCap
    /\ driverQ' = Append(driverQ, call("dirs", g, upath[g], TRUE))
    /\ pc' = [pc EXCEPT ![g] = "waitDirs"]
    /\ UNCHANGED <<spanVars, otherVars, fsVars, dirVars, tocVars, reloadLock, upath, spawned,
                   clicks, ghostVars>>

\* update, select: default: return.  The event of the goroutine is dropped.
UpdateBail(g) ==
    /\ pc[g] = "start"
    /\ reloadLock >= ReloadLockCap
    /\ pc' = [pc EXCEPT ![g] = "dropped"]
    /\ upath' = [upath EXCEPT ![g] = <<>>]
    /\ missed' = missed \cup {Dir(upath[g])}
    /\ dropSeen' = IF dropSeen = 0 THEN spawned ELSE dropSeen
    /\ UNCHANGED <<spanVars, otherVars, fsVars, dirVars, tocVars, reloadLock, driverQ, spawned, clicks>>

\* update, select: case p.reloadLock <- struct{}{}; the release is deferred
\* and p.driver.CallSync(func() { p.dirs.update(path) }) is queued
UpdateAcquire(g) ==
    /\ pc[g] = "start"
    /\ reloadLock < ReloadLockCap
    /\ reloadLock' = reloadLock + 1
    /\ driverQ' = Append(driverQ, call("dirs", g, upath[g], TRUE))
    /\ pc' = [pc EXCEPT ![g] = "waitDirs"]
    /\ UNCHANGED <<spanVars, otherVars, fsVars, dirVars, tocVars, upath, spawned, clicks, ghostVars>>

\* update: toc := p.TOC(); the outline is reloaded when path is below toc.dir
UpdateToc(g) ==
    /\ pc[g] = "dirsDone"
    /\ IF toc # NoTOC /\ HasPrefix(upath[g], toc.dir)
       THEN /\ driverQ' = Append(driverQ, call("toc", g, toc.dir, TRUE))
            /\ pc' = [pc EXCEPT ![g] = "waitToc"]
       ELSE /\ pc' = [pc EXCEPT ![g] = "return"]
            /\ UNCHANGED driverQ
    /\ UNCHANGED <<spanVars, otherVars, fsVars, dirVars, tocVars, reloadLock, upath, spawned,
                   clicks, ghostVars>>

UpdateReturnNoRelease(g) ==
    /\ pc[g] = "return"
    /\ pc' = [pc EXCEPT ![g] = "done"]
    /\ upath' = [upath EXCEPT ![g] = <<>>]
    /\ UNCHANGED <<spanVars, otherVars, fsVars, dirVars, tocVars, reloadLock, driverQ, spawned,
                   clicks, ghostVars>>

\* update: the deferred <-p.reloadLock
UpdateRelease(g) ==
    /\ pc[g] = "return"
    /\ reloadLock' = reloadLock - 1
    /\ pc' = [pc EXCEPT ![g] = "done"]
    /\ upath' = [upath EXCEPT ![g] = <<>>]
    /\ UNCHANGED <<spanVars, otherVars, fsVars, dirVars, tocVars, driverQ, spawned, clicks, ghostVars>>

\* the driver runs the queued p.dirs.update(path): every matching directory
\* hands its reload to driver.Call, and the waiting CallSync returns
DriverDirsUpdate ==
    /\ driverQ # <<>>
    /\ Head(driverQ).kind = "dirs"
    /\ LET c  == Head(driverQ)
           ds == directoryUpdate(RootPath, c.dir)
       IN  /\ driverQ' = Tail(driverQ) \o
                  [i \in 1..Len(ds) |-> call("reload", c.g, ds[i], TRUE)]
           /\ pc' = [pc EXCEPT ![c.g] = "dirsDone"]
    /\ UNCHANGED <<spanVars, otherVars, fsVars, dirVars, tocVars, reloadLock, upath, spawned,
                   clicks, ghostVars>>

\* the queue once p.toc has been replaced
unbindToc(q) ==
    [i \in 1..Len(q) |-> IF q[i].kind = "toc" THEN [q[i] EXCEPT !.live = FALSE] ELSE q[i]]

\* directory.reload: ReadDir, the length is stored and, when the tree is
\* attached, its children are parsed again
reload(d) ==
    /\ length' = [length EXCEPT ![d] = fsDirs[d]]
    /\ kids' = [kids EXCEPT ![d] = IF attached[d] THEN fsDirs[d] ELSE @]
    /\ UNCHANGED attached

\* the driver runs a queued d.reload
DriverReload ==
    /\ driverQ # <<>>
    /\ Head(driverQ).kind = "reload"
    /\ reload(Head(driverQ).dir)
    /\ missed' = missed \ {Head(driverQ).dir}
    /\ driverQ' = Tail(driverQ)
    /\ UNCHANGED <<spanVars, otherVars, fsVars, tocVars, reloadLock, pc, upath, spawned, clicks,
                   dropSeen>>

\* ------------------------------------------------------------------------
\* TOC: the outline of the packages of a directory
\* ------------------------------------------------------------------------

genericTreeNode(name, path, color, children) ==
    [name |-> name, path |-> path, color |-> color, children |-> children]

\* a Name: a genericTreeNode with a Location
Name(name, path, color, children, filename, pos) ==
    [name |-> name, path |-> path, color |-> color, children |-> children,
     filename |-> filename, pos |-> pos]

\* &Name{}
zeroName == Name("", <<>>, "zero", <<>>, "", 0)

\* the names of the value specs of a const or var declaration
RECURSIVE valueNamesFrom(_, _, _)
valueNamesFrom(filename, parentName, specs) ==
    IF specs = <<>> THEN <<>>
    ELSE LET spec == Head(specs)
             rest == valueNamesFrom(filename, parentName, Tail(specs))
         IN  IF spec.spec # "value" THEN rest
             ELSE [i \in 1..Len(spec.Names) |->
                      Name(spec.Names[i].name, Append(parentName, spec.Names[i].name),
                           "nameColor", <<>>, filename, spec.Names[i].pos)] \o rest

\* typeMap[key] = v
mapPut(m, key, v) == [k \in DOMAIN m \cup {key} |-> IF k = key THEN v ELSE m[k]]

\* typ, ok := typeMap[key]; if !ok { typ = &Name{} }
mapGet(m, key) == IF key \in DOMAIN m THEN m[key] ELSE zeroName

\* parsePkg: the body of the loop over the declarations of a file.  types
\* holds pointers into typeMap: it is kept as the sequence of their keys.
parseDecl(acc, pkgName, filename, decl) ==
    IF decl.kind = "gen" THEN
        IF decl.Tok = "const" THEN
            [acc EXCEPT !.consts =
                @ \o valueNamesFrom(filename, <<pkgName, "constants">>, decl.Specs)]
        ELSE IF decl.Tok = "var" THEN
            [acc EXCEPT !.vars =
                @ \o valueNamesFrom(filename, <<pkgName, "global vars">>, decl.Specs)]
        ELSE IF decl.Tok = "type" THEN
            LET typeSpec == decl.Specs[1]
                typeName == typeSpec.Name
                typ      == mapGet(acc.typeMap, typeName)
            IN  [acc EXCEPT
                   !.typeMap = mapPut(@, typeName,
                       [typ EXCEPT !.name = typeName,
                                   !.path = <<pkgName, "types", typeName>>,
                                   !.color = "nameColor",
                                   !.filename = filename,
                                   !.pos = typeSpec.Pos]),
                   !.types = Append(@, typeName)]
        ELSE acc
    ELSE
        LET name == Name(decl.Name, <<pkgName, "funcs", decl.Name>>, "nameColor", <<>>,
                         filename, decl.Pos)
        IN  IF ~decl.Recv.has THEN [acc EXCEPT !.funcs = Append(@, name)]
            ELSE LET recvTypeName == decl.Recv.type
                     typ          == mapGet(acc.typeMap, recvTypeName)
                     method       == [name EXCEPT
                                        !.path = <<pkgName, "types", recvTypeName, decl.Name>>]
                 IN  [acc EXCEPT !.typeMap = mapPut(@, recvTypeName,
                                     [typ EXCEPT !.children = Append(@, method)])]

RECURSIVE parseDecls(_, _, _, _)
parseDecls(acc, pkgName, filename, decls) ==
    IF decls = <<>> THEN acc
    ELSE parseDecls(parseDecl(acc, pkgName, filename, Head(decls)), pkgName, filename,
                    Tail(decls))

\* the loop over pkg.Files, a map: fileOrder is the order of the iteration
RECURSIVE parseFiles(_, _, _)
parseFiles(acc, pkg, fileOrder) ==
    IF fileOrder = <<>> THEN acc
    ELSE parseFiles(parseDecls(acc, pkg.Name, Head(fileOrder), pkg.Files[Head(fileOrder)]),
                    pkg, Tail(fileOrder))

\* TOC.parsePkg
parsePkg(pkg, fileOrder) ==
    LET acc == parseFiles([consts |-> <<>>, vars |-> <<>>, typeMap |-> <<>>,
                           types |-> <<>>, funcs |-> <<>>], pkg, fileOrder)
    IN  genericTreeNode(pkg.Name, <<pkg.Name>>, "skippableColor",
          << genericTreeNode("constants", <<pkg.Name, "constants">>, "genericColor", acc.consts),
             genericTreeNode("global vars", <<pkg.Name, "global vars">>, "genericColor", acc.vars),
             genericTreeNode("types", <<pkg.Name, "types">>, "genericColor",
                             [i \in 1..Len(acc.types) |-> acc.typeMap[acc.types[i]]]),
             genericTreeNode("funcs", <<pkg.Name, "funcs">>, "genericColor", acc.funcs) >>)

\* the orders in which the elements of a set can be visited
Orders(S) ==
    {q \in [1..Cardinality(S) -> S] : \A i, j \in 1..Cardinality(S) : i # j => q[i] # q[j]}

NoRecv == [has |-> FALSE, star |-> FALSE, type |-> ""]

Recv(star, type) == [has |-> TRUE, star |-> star, type |-> type]

FuncDecl(name, pos, recv) == [kind |-> "func", Name |-> name, Pos |-> pos, Recv |-> recv]

TypeDecl(name, pos) ==
    [kind |-> "gen", Tok |-> "type", Specs |-> <<[spec |-> "type", Name |-> name, Pos |-> pos]>>]

ValueDecl(tok, name, pos) ==
    [kind |-> "gen", Tok |-> tok,
     Specs |-> <<[spec |-> "value", Names |-> <<[name |-> name, pos |-> pos]>>]>>]

PkgNames == <<"foo", "bar", "baz">>

\* the packages a directory can hold, as parser.ParseDir returns them
PkgSource(k) ==
    [Name  |-> PkgNames[k],
     Files |-> [f \in {"a.go"} |->
                  IF k = 1
                  THEN <<TypeDecl("Foo", 10), FuncDecl("Bar", 20, Recv(TRUE, "Foo")),
                         FuncDecl("Baz", 30, NoRecv)>>
                  ELSE <<ValueDecl("const", "A", 10)>>]]

\* TOC.Reload: ParseDir found the packages pkgs; they are visited in the
\* order order, and the files of each in the order fileOrders gives
Reload(t, order, fileOrders) ==
    [t EXCEPT !.children =
        @ \o [i \in 1..Len(order) |-> parsePkg(PkgSource(order[i]), fileOrders[order[i]])]]

\* NewTOC: Init sets the directory and calls Reload
NewTOC(dir, order, fileOrders) ==
    Reload([dir |-> dir, children |-> <<>>], order, fileOrders)

\* the iteration orders of the files of each package of pkgs
FileOrders(pkgs) ==
    {fo \in [pkgs -> UNION {Orders(DOMAIN PkgSource(k).Files) : k \in PkgIds}] :
        \A k \in pkgs : fo[k] \in Orders(DOMAIN PkgSource(k).Files)}

\* the driver runs a queued toc.Reload, and the waiting CallSync returns
DriverTocReload ==
    /\ driverQ # <<>>
    /\ Head(driverQ).kind = "toc"
    /\ LET c == Head(driverQ)
       IN  /\ IF c.live
              THEN /\ \E order \in Orders(fsPkgs[toc.dir]) :
                        \E fo \in FileOrders(fsPkgs[toc.dir]) :
                            toc' = Reload(toc, order, fo)
                   /\ tocSeen' = fsPkgs[toc.dir]
              ELSE UNCHANGED <<toc, tocSeen>>
           /\ pc' = [pc EXCEPT ![c.g] = "return"]
    /\ driverQ' = Tail(driverQ)
    /\ UNCHANGED <<spanVars, otherVars, fsVars, dirVars, reloads, reloadLock, upath, spawned,
                   clicks, ghostVars>>

\* a source file of the outline's directory is added or removed: a package
\* appears in the directory or disappears from it
TocFsChange(k) ==
    /\ fsPkgs' = [fsPkgs EXCEPT ![toc.dir] = IF k \in @ THEN @ \ {k} ELSE @ \cup {k}]
    /\ UNCHANGED <<spanVars, otherVars, fsDirs, dirVars, tocVars, procVars, ghostVars>>

\* toc.Reload is called on the outline
TocReload ==
    /\ reloads < MaxReloads
    /\ reloads' = reloads + 1
    /\ \E order \in Orders(fsPkgs[toc.dir]) : \E fo \in FileOrders(fsPkgs[toc.dir]) :
           toc' = Reload(toc, order, fo)
    /\ tocSeen' = fsPkgs[toc.dir]
    /\ UNCHANGED <<spanVars, otherVars, fsVars, dirVars, procVars, ghostVars>>

\* the click handler of the button of a directory below the root: a new
\* outline is built for the directory, and its tree is loaded or unloaded
Click(d) ==
    /\ clicks < MaxClicks
    /\ clicks' = clicks + 1
    /\ \E order \in Orders(fsPkgs[d]) : \E fo \in FileOrders(fsPkgs[d]) :
           toc' = NewTOC(d, order, fo)
    /\ driverQ' = unbindToc(driverQ)
    /\ tocSeen' = fsPkgs[d]
    /\ IF length[d] = 0 THEN UNCHANGED <<attached, kids>>
       ELSE IF attached[d] THEN /\ attached' = [attached EXCEPT ![d] = FALSE]
                                /\ UNCHANGED kids
       ELSE /\ attached' = [attached EXCEPT ![d] = TRUE]
            /\ kids' = [kids EXCEPT ![d] = fsDirs[d]]
    /\ UNCHANGED <<spanVars, otherVars, fsVars, length, reloads, reloadLock, pc, upath, spawned,
                   ghostVars>>

\* ------------------------------------------------------------------------
\* gxui.TreeNode: what a node answers to the tree widget
\* ------------------------------------------------------------------------

\* genericTreeNode.ItemIndex: the index of the first child whose path is
\* item or is followed by "." in item, -1 if there is none
genericItemIndex(t, item) ==
    LET hits == {i \in 1..Len(t.children) :
                    \/ item = t.children[i].path
                    \/ (Len(item) > Len(t.children[i].path)
                        /\ HasPrefix(item, t.children[i].path))}
    IN  IF hits = {} THEN -1 ELSE (CHOOSE i \in hits : \A j \in hits : i <= j) - 1

\* genericTreeNode: Count, Item, NodeAt, ItemIndex (for the items of a set)
\* and the label of Create
genericAnswers(t, items) ==
    [Count     |-> Len(t.children),
     Item      |-> t.path,
     NodeAt    |-> t.children,
     ItemIndex |-> [item \in items |-> genericItemIndex(t, item)],
     Create    |-> [text |-> t.name, color |-> t.color]]

\* skippingTreeNode: every method skips to the only child if there is
\* exactly one.  The children are genericTreeNode values.
skippingAnswers(t, items) ==
    IF Len(t.children) = 1 THEN genericAnswers(t.children[1], items)
    ELSE genericAnswers(t, items)

\* the genericTreeNode embedded in a TOC: only its children are ever set
tocNode(t) == genericTreeNode("", <<>>, "zero", t.children)

\* ------------------------------------------------------------------------
\* parsePkg on the packages of a bounded family
\* ------------------------------------------------------------------------

\* type ( n1 ...; n2 ... ): one declaration with a spec for each name
TypeGroupDecl(names, pos) ==
    [kind |-> "gen", Tok |-> "type",
     Specs |-> [i \in 1..Len(names) |-> [spec |-> "type", Name |-> names[i], Pos |-> pos + i]]]

DeclKinds == 1..10

\* the declarations a file of the family is made of
DeclAt(k, pos) ==
    CASE k = 1  -> TypeDecl("Foo", pos)
      [] k = 2  -> TypeDecl("Qux", pos)
      [] k = 3  -> TypeGroupDecl(<<"Foo", "Qux">>, pos)
      [] k = 4  -> FuncDecl("Bar", pos, Recv(TRUE, "Foo"))
      [] k = 5  -> FuncDecl("Bar", pos, Recv(FALSE, "Foo"))
      [] k = 6  -> FuncDecl("Bar", pos, Recv(TRUE, "Qux"))
      [] k = 7  -> FuncDecl("Baz", pos, NoRecv)
      [] k = 8  -> FuncDecl("init", pos, NoRecv)
      [] k = 9  -> ValueDecl("const", "A", pos)
      [] k = 10 -> ValueDecl("var", "_", pos)

\* f.Decls of a file: declaration i stands at position 10 * i
FileDecls(ks) == [i \in 1..Len(ks) |-> DeclAt(ks[i], 10 * i)]

FileNames == <<"a.go", "b.go">>

\* an *ast.Package of one or two files
Package(ka, kb) ==
    [Name  |-> PkgNames[1],
     Files |-> [f \in (IF kb = <<>> THEN {FileNames[1]} ELSE {FileNames[1], FileNames[2]}) |->
                  IF f = FileNames[1] THEN FileDecls(ka) ELSE FileDecls(kb)]]

\* all declarations of a package, each with its file
allDecls(p) ==
    UNION {{[file |-> f, decl |-> p.Files[f][i]] : i \in 1..Len(p.Files[f])} : f \in DOMAIN p.Files}

\* the type specs of a package: name, file and position
typeSpecsOf(p) ==
    UNION {{[name |-> d.decl.Specs[i].Name, file |-> d.file, pos |-> d.decl.Specs[i].Pos,
             idx |-> i, of |-> Len(d.decl.Specs)] : i \in 1..Len(d.decl.Specs)} :
           d \in {x \in allDecls(p) : x.decl.kind = "gen" /\ x.decl.Tok = "type"}}

\* the function declarations of a package
funcDeclsOf(p) == {d \in allDecls(p) : d.decl.kind = "func"}

\* the package compiles: no type is declared twice, every receiver type is
\* declared, no method is declared twice for a type, and only init and the
\* blank identifier are declared more than once
Compiles(p) ==
    /\ \A t, u \in typeSpecsOf(p) : t.name = u.name => t = u
    /\ \A d \in funcDeclsOf(p) :
         d.decl.Recv.has => \E t \in typeSpecsOf(p) : t.name = d.decl.Recv.type
    /\ \A d, e \in funcDeclsOf(p) :
         (d # e /\ d.decl.Name = e.decl.Name /\ d.decl.Recv.has = e.decl.Recv.has) =>
             IF d.decl.Recv.has THEN d.decl.Recv.type # e.decl.Recv.type
             ELSE d.decl.Name = "init"
    /\ \A d, e \in allDecls(p) :
         (d # e /\ d.decl.kind = "gen" /\ e.decl.kind = "gen" /\ d.decl.Tok # "type"
               /\ e.decl.Tok # "type") =>
             (d.decl.Specs[1].Names[1].name # e.decl.Specs[1].Names[1].name
              \/ d.decl.Specs[1].Names[1].name = "_")

\* the packages of the family: up to MaxDecls declarations in a.go and at
\* most one in b.go
Packages ==
    {p \in {Package(ka, kb) : ka \in SeqsUpTo(DeclKinds, MaxDecls), kb \in SeqsUpTo(DeclKinds, 1)} :
        Compiles(p)}

NoNode == genericTreeNode("", <<>>, "zero", <<>>)

\* t.parsePkg(pkg), the files visited in any order
ParsePkg ==
    /\ opc = "idle"
    /\ \E fo \in Orders(DOMAIN srcPkg.Files) :
         /\ pkgOrder' = fo
         /\ outline' = parsePkg(srcPkg, fo)
    /\ opc' = "parsed"
    /\ UNCHANGED <<srcPkg, spanVars, treeVars, walkVars, uiVars>>

\* no package is being parsed
OutlineIdle ==
    /\ srcPkg = Package(<<>>, <<>>)
    /\ pkgOrder = <<>>
    /\ outline = NoNode
    /\ opc = "idle"

\* ------------------------------------------------------------------------
\* Source texts and their syntax trees, as go/parser positions them
\* ------------------------------------------------------------------------

\* stmt.Tok of a range statement: no assignment, "=", ":="
RangeToks == <<"ILLEGAL", "ASSIGN", "DEFINE">>

\* len of the operator of a range statement
tokLen(tok) == IF tok = "DEFINE" THEN 2 ELSE IF tok = "ASSIGN" THEN 1 ELSE 0

\* statements without positions: what the text of a statement is made of
tReturn == [t |-> "return"]

tAssign == [t |-> "assign"]

tBad == [t |-> "bad"]

tUnknown == [t |-> "unknown"]

tNil == [t |-> "nil"]

tBlock(body) == [t |-> "block", body |-> body]

tRange(tok, gap, body) == [t |-> "range", tok |-> tok, gap |-> gap, body |-> body]

\* the statements the body of the function of a source text is made of
StmtForms ==
    {tReturn, tAssign, tBad, tUnknown, tNil,
     tBlock(<<tReturn>>), tBlock(<<tUnknown, tReturn>>),
     tBlock(<<tRange(RangeToks[1], 1, <<tReturn>>)>>)}
    \cup {tRange(tok, gap, <<tReturn>>) :
            tok \in {RangeToks[i] : i \in 1..3}, gap \in 1..MaxGap}

\* a laid-out piece of text: its syntax tree (token.Pos is the byte offset
\* plus one), the position after it, the positions of its two-byte
\* characters, and the places of its keywords and string literals
laid(node, end, wide, kws, strs) ==
    [node |-> node, end |-> end, wide |-> wide, kws |-> kws, strs |-> strs]

place(pos, len) == [Pos |-> pos, Len |-> len]

RECURSIVE lay(_, _, _)
RECURSIVE layList(_, _, _)

\* { stmt; ...; stmt }: one byte separates the braces and the statements
layBlock(body, pos, lvl) ==
    LET in == layList(body, pos + 1, lvl + 1)
    IN  laid([kind |-> "block", Lbrace |-> pos, Rbrace |-> in.end + 1, List |-> in.node,
              lvl |-> lvl],
             in.end + 2, in.wide, in.kws, in.strs)

\* the text of a statement at position pos, lvl blocks deep
lay(tmpl, pos, lvl) ==
    CASE tmpl.t = "return" ->
           laid([kind |-> "return", Return |-> pos, Results |-> <<>>, lvl |-> lvl],
                pos + 6, {}, <<place(pos, 6)>>, <<>>)
      [] tmpl.t = "assign" ->
           \* the text is: th = "Om", with the two-byte characters thorn and Omega
           laid([kind |-> "assign", lvl |-> lvl,
                 Lhs |-> <<[kind |-> "ident", NamePos |-> pos, End |-> pos + 2]>>,
                 Rhs |-> <<[kind |-> "string", ValuePos |-> pos + 5, End |-> pos + 9]>>],
                pos + 9, {pos, pos + 6}, <<>>, <<place(pos + 5, 4)>>)
      [] tmpl.t = "bad" ->
           laid([kind |-> "bad", From |-> pos, To |-> pos + 3, lvl |-> lvl],
                pos + 3, {}, <<>>, <<>>)
      [] tmpl.t = "unknown" ->
           laid([kind |-> "unknown", lvl |-> lvl], pos + 3, {}, <<>>, <<>>)
      [] tmpl.t = "nil" ->
           laid([kind |-> "nil", lvl |-> lvl], pos, {}, <<>>, <<>>)
      [] tmpl.t = "block" -> layBlock(tmpl.body, pos, lvl)
      [] tmpl.t = "range" ->
           \* for<gap>range x {...}  or  for k =<gap>range x {...}
           LET tokPos   == IF tmpl.tok = "ILLEGAL" THEN 0 ELSE pos + 6
               rangePos == IF tmpl.tok = "ILLEGAL" THEN pos + 3 + tmpl.gap
                           ELSE tokPos + tokLen(tmpl.tok) + tmpl.gap
               body     == layBlock(tmpl.body, rangePos + 8, lvl)
           IN  laid([kind |-> "range", For |-> pos, Tok |-> tmpl.tok, TokPos |-> tokPos,
                     Key |-> IF tmpl.tok = "ILLEGAL" THEN [kind |-> "nil"]
                             ELSE [kind |-> "ident", NamePos |-> pos + 4, End |-> pos + 5],
                     Value |-> [kind |-> "nil"],
                     X |-> [kind |-> "ident", NamePos |-> rangePos + 6, End |-> rangePos + 7],
                     Body |-> body.node, rangePos |-> rangePos, lvl |-> lvl],
                    body.end, body.wide,
                    <<place(pos, 3), place(rangePos, 5)>> \o body.kws, body.strs)

\* the statements of a list, each preceded by one byte
layList(tmpls, pos, lvl) ==
    IF tmpls = <<>> THEN laid(<<>>, pos, {}, <<>>, <<>>)
    ELSE LET first == lay(Head(tmpls), pos + 1, lvl)
             rest  == layList(Tail(tmpls), first.end, lvl)
         IN  laid(<<first.node>> \o rest.node, rest.end, first.wide \cup rest.wide,
                  first.kws \o rest.kws, first.strs \o rest.strs)

\* a source text: a function whose name has w two-byte characters, and its
\* body; ok is FALSE for a text that does not parse
Source(w, tmpls, ok) ==
    LET body == layBlock(tmpls, 1 + 2 * w, 0)
    IN  [ok |-> ok, body |-> body.node,
         wide |-> {1 + 2 * (i - 1) : i \in 1..w} \cup body.wide,
         kws |-> body.kws, strs |-> body.strs]

Sources == {Source(w, tmpls, TRUE) : w \in 0..1, tmpls \in SeqsUpTo(StmtForms, MaxStmts)}

\* ------------------------------------------------------------------------
\* syntax.Syntax: the walk over the statements
\* ------------------------------------------------------------------------

\* a Syntax before a walk: no span, depth 0; err is the error of its Parse
NewSyntax(wide) ==
    [wide |-> wide, spans |-> <<>>, depth |-> 0, log |-> <<>>, visits |-> <<>>, blocks |-> <<>>,
     err |-> FALSE]

\* the categories of the theme: a construct, or the rainbow of a depth
Construct(name) == <<name, 0>>

Rainbow(depth) == <<"rainbow", depth>>

\* the offset, in characters, of a token.Pos
runeOffset(wide, pos) == (pos - 1) - Cardinality({b \in wide : b < pos})

\* s.add: a span of a category from a position and a length in bytes
add(s, cat, pos, byteLength) ==
    [s EXCEPT !.spans = Append(@, [cat |-> cat, Start |-> runeOffset(s.wide, pos),
                                   End |-> runeOffset(s.wide, pos + byteLength)])]

\* s.addNode: the span of a node
addNode(s, cat, pos, end) == add(s, cat, pos, end - pos)

\* s.addExpr on the expressions of the texts: a string literal is a span
addExpr(s, expr) ==
    IF expr.kind = "string" THEN addNode(s, Construct("string"), expr.ValuePos, expr.End) ELSE s

\* s.rainbowScope: the scope is opened, the braces are spans of the depth
rainbowOpen(s, lbrace, rbrace) ==
    LET d == s.depth + 1
    IN  add(add([s EXCEPT !.depth = d], Rainbow(d), lbrace, 1), Rainbow(d), rbrace, 1)

\* the function rainbowScope returns: the scope is closed
rainbowClose(s) == [s EXCEPT !.depth = @ - 1]

addUnknownStmtAsBad(s, stmt) == add(s, Construct("bad"), 1, 1)

\* addStmt, default: log.Printf("Error: Unknown stmt type: %T", stmt)
addUnknownStmt(s, stmt) == [s EXCEPT !.log = Append(@, stmt.kind)]

\* addBadStmt
addBadStmt(s, stmt) == addNode(s, Construct("bad"), stmt.From, stmt.To)

\* addReturnStmt
addReturnStmt(s, stmt) ==
    LET RECURSIVE results(_, _)
        results(s1, rs) == IF rs = <<>> THEN s1 ELSE results(addExpr(s1, Head(rs)), Tail(rs))
    IN  results(add(s, Construct("keyword"), stmt.Return, 6), stmt.Results)

\* addAssignStmt
addAssignStmt(s, stmt) ==
    LET RECURSIVE exprs(_, _)
        exprs(s1, es) == IF es = <<>> THEN s1 ELSE exprs(addExpr(s1, Head(es)), Tail(es))
    IN  exprs(exprs(s, stmt.Lhs), stmt.Rhs)

\* addRangeStmt: var rangeStart token.Pos; switch stmt.Tok
rangeStart(stmt) ==
    CASE stmt.Tok = "ILLEGAL" -> stmt.For + 4
      [] stmt.Tok = "ASSIGN"  -> stmt.TokPos + 2
      [] stmt.Tok = "DEFINE"  -> stmt.TokPos + 3

RECURSIVE addStmt(_, _)
RECURSIVE addBlockStmt(_, _)
RECURSIVE addBlockStmtNoClose(_, _)

\* the loop of addBlockStmt over stmt.List
RECURSIVE addStmts(_, _)
addStmts(s, list) ==
    IF list = <<>> THEN s ELSE addStmts(addStmt(s, Head(list)), Tail(list))

\* addRangeStmt
addRangeStmt(s, stmt) ==
    LET s1 == add(s, Construct("keyword"), stmt.For, 3)
        s2 == addExpr(addExpr(s1, stmt.Key), stmt.Value)
        s3 == add(s2, Construct("keyword"), rangeStart(stmt), 5)
    IN  addBlockStmt(addExpr(s3, stmt.X), stmt.Body)

addBlockStmtNoClose(s, stmt) ==
    LET s1 == addStmts(rainbowOpen(s, stmt.Lbrace, stmt.Rbrace), stmt.List)
    IN  [s1 EXCEPT !.blocks = Append(@, [lvl |-> stmt.lvl, in |-> s.depth, out |-> s1.depth])]

\* addBlockStmt: defer s.rainbowScope(stmt.Lbrace, 1, stmt.Rbrace, 1)(), then
\* the statements.  blocks records the depth at entry and at return.
addBlockStmt(s, stmt) ==
    LET s1 == rainbowClose(addStmts(rainbowOpen(s, stmt.Lbrace, stmt.Rbrace), stmt.List))
    IN  [s1 EXCEPT !.blocks = Append(@, [lvl |-> stmt.lvl, in |-> s.depth, out |-> s1.depth])]

\* addStmt.  visits records the depth at which each statement is walked.
addStmt(s, stmt) ==
    IF stmt.kind = "nil" THEN s
    ELSE LET s0 == [s EXCEPT !.visits = Append(@, [lvl |-> stmt.lvl, depth |-> s.depth])]
         IN  CASE stmt.kind = "bad"    -> addBadStmt(s0, stmt)
               [] stmt.kind = "assign" -> addAssignStmt(s0, stmt)
               [] stmt.kind = "return" -> addReturnStmt(s0, stmt)
               [] stmt.kind = "range"  -> addRangeStmt(s0, stmt)
               [] stmt.kind = "block"  -> addBlockStmt(s0, stmt)
               [] OTHER                -> addUnknownStmt(s0, stmt)

\* the spans of a category, in the order they were recorded
spansOf(s, cat) ==
    LET sel == SelectSeq(s.spans, LAMBDA x : x.cat = cat)
    IN  [i \in 1..Len(sel) |-> [Start |-> sel[i].Start, End |-> sel[i].End]]

\* s.Layers(): the spans of each category that has any
Layers(s) ==
    [cat \in {s.spans[i].cat : i \in 1..Len(s.spans)} |-> spansOf(s, cat)]

\* s.Parse of a text that parses: the body of the function is walked
walk(src) == addBlockStmt(NewSyntax(src.wide), src.body)

\* s.Parse(text): a text that parses is walked; for one that does not, an
\* error is returned and there is no result: the Syntax is left with no
\* layers or with the ones it had
Parse(s, src) ==
    IF src.ok THEN {walk(src)}
    ELSE {[NewSyntax(src.wide) EXCEPT !.err = TRUE], [s EXCEPT !.err = TRUE]}

\* Highlight.TextChanged: the error of Parse is dropped, and h.layers is
\* built from h.syntax.Layers().  The order of h.layers is the order of the
\* iteration over a map: h.layers is kept as the map.
TextChanged ==
    /\ \E s \in Parse(syn, text) :
         /\ syn' = s
         /\ hLayers' = Layers(s)
         /\ lastGood' = IF s.err THEN lastGood ELSE Layers(s)
    /\ wpc' = "changed"
    /\ UNCHANGED <<text, spanVars, treeVars, outVars, uiVars>>

\* Highlight.Apply: e.SetSyntaxLayers(h.layers)
Apply ==
    /\ wpc = "changed"
    /\ layers' = hLayers
    /\ wpc' = "applied"
    /\ UNCHANGED <<oldLayers, edits, hpc, text, syn, hLayers, lastGood, treeVars, outVars, uiVars>>

\* the user's edit leaves a text that does not parse
BreakText ==
    /\ wpc # "init"
    /\ text.ok
    /\ text' = [text EXCEPT !.ok = FALSE]
    /\ UNCHANGED <<syn, hLayers, lastGood, wpc, spanVars, treeVars, outVars, uiVars>>

\* the user's edit gives back the text that parses
FixText ==
    /\ ~text.ok
    /\ text' = [text EXCEPT !.ok = TRUE]
    /\ UNCHANGED <<syn, hLayers, lastGood, wpc, spanVars, treeVars, outVars, uiVars>>

\* no text is being highlighted
WalkIdle ==
    /\ text = Source(0, <<>>, TRUE)
    /\ syn = NewSyntax({})
    /\ hLayers = <<>>
    /\ lastGood = <<>>
    /\ wpc = "init"

\* ------------------------------------------------------------------------
\* TabbedEditor: the editors map and the panels of the tab holder.
\* A CodeEditor is the index of its record in codeEditors; 0 is nil.  Panel
\* indices count from 1, and 0 stands for the -1 of PanelIndex.
\* ------------------------------------------------------------------------

NameChars == <<"a", "b", "c", "d", "e", "f">>

\* the names of the files below the project, relative to it
TabNames == {<<NameChars[i]>> : i \in 1..MaxNames}

\* the prefix Open's callers and the rename callback strip from a path
hiddenPrefix == RootPath

TabPaths == {hiddenPrefix \o <<"/">> \o n : n \in TabNames}

\* strings.TrimPrefix
TrimPrefix(str, prefix) ==
    IF HasPrefix(str, prefix) THEN SubSeq(str, Len(prefix) + 1, Len(str)) ELSE str

relPath(from, path) ==
    LET rel == TrimPrefix(path, from)
    IN  IF rel[1] = "/" THEN Tail(rel) ELSE rel

\* e.editors[k] = v
editorsPut(m, k, v) == [x \in DOMAIN m \cup {k} |-> IF x = k THEN v ELSE m[x]]

\* delete(e.editors, k)
editorsDelete(m, k) == [x \in DOMAIN m \ {k} |-> m[x]]

NoPanels == [entries |-> <<>>, selected |-> 0]

PanelIndex(h, c) ==
    LET at == {i \in 1..Len(h.entries) : h.entries[i].panel = c}
    IN  IF at = {} THEN 0 ELSE CHOOSE i \in at : \A j \in at : i <= j

Select(h, i) == [h EXCEPT !.selected = IF i = 0 THEN 0 ELSE h.entries[i].panel]

\* PanelHolder.AddPanelAt: the first panel of an empty holder is selected
holderAddPanelAt(h, c, n, i) ==
    LET es == SubSeq(h.entries, 1, i - 1) \o <<[panel |-> c, name |-> n]>>
                  \o SubSeq(h.entries, i, Len(h.entries))
        h2 == [h EXCEPT !.entries = es]
    IN  IF h.selected = 0 THEN Select(h2, i) ELSE h2

\* PanelHolder.RemovePanel: a neighbour of a removed selected panel is selected
holderRemovePanel(h, c) ==
    LET i  == PanelIndex(h, c)
        es == SubSeq(h.entries, 1, i - 1) \o SubSeq(h.entries, i + 1, Len(h.entries))
        h2 == [h EXCEPT !.entries = es]
    IN  IF c # h.selected THEN h2
        ELSE IF Len(es) = 0 THEN Select(h2, 0)
        ELSE IF i <= Len(es) THEN Select(h2, i)
        ELSE Select(h2, i - 1)

\* TabbedEditor.Add
Add(e, name, editor) ==
    LET h == holderAddPanelAt(e.holder, editor, name, Len(e.holder.entries) + 1)
    IN  [editors |-> editorsPut(e.editors, name, editor),
         holder  |-> Select(h, PanelIndex(h, editor))]

\* TabbedEditor.AddPanelAt
AddPanelAt(e, c, n, i) ==
    [editors |-> editorsPut(e.editors, n, c),
     holder  |-> holderAddPanelAt(e.holder, c, n, i)]

\* TabbedEditor.RemovePanel: the range over the map stops at the first entry
\* of the editor it meets, in the order the map yields its entries
RemovePanel(e, panel) ==
    LET names == {n \in DOMAIN e.editors : e.editors[n] = panel}
        maps  == IF names = {} THEN {e.editors}
                 ELSE {editorsDelete(e.editors, n) : n \in names}
    IN  {[editors |-> m, holder |-> holderRemovePanel(e.holder, panel)] : m \in maps}

\* the function the OnRename callback of Open hands to e.driver.Call; name
\* is the name Open was called with
renameCall(e, ce, name, newPath) ==
    LET newName == relPath(hiddenPrefix, newPath)
        focused == e.holder.selected
        e1      == [e EXCEPT !.editors =
                       editorsPut(editorsDelete(e.editors, name), newName, ce)]
        idx     == PanelIndex(e1.holder, ce)
        reAdd(e2) ==
            LET e3 == AddPanelAt(e2, ce, newName, idx)
            IN  [e3 EXCEPT !.holder = Select(e3.holder, PanelIndex(e3.holder, focused))]
    IN  IF idx = 0 THEN {e1} ELSE {reAdd(e2) : e2 \in RemovePanel(e1, ce)}

TabbedEditor == [editors |-> editors, holder |-> holder]

\* TabbedEditor.Open(relPath(hiddenPrefix, path), path, environ)
Open(path) ==
    LET name == relPath(hiddenPrefix, path)
    IN  /\ IF name \in DOMAIN editors
           THEN /\ holder' = Select(holder, PanelIndex(holder, editors[name]))
                /\ UNCHANGED <<editors, codeEditors>>
           ELSE /\ Len(codeEditors) < MaxEditors
                /\ codeEditors' = Append(codeEditors, [name |-> name, path |-> path])
                /\ LET e2 == Add(TabbedEditor, name, Len(codeEditors) + 1)
                   IN  /\ editors' = e2.editors
                       /\ holder' = e2.holder
        /\ UNCHANGED <<tabQ, renames, openerVars, spanVars, treeVars, outVars, walkVars>>

\* the file of an open editor is renamed to a path no open editor has: the
\* editor runs the callback of Open, which queues renameCall on the driver
Renamed(ce, newPath) ==
    /\ renames < MaxRenames
    /\ PanelIndex(holder, ce) # 0
    /\ \A other \in 1..Len(codeEditors) :
          PanelIndex(holder, other) # 0 => codeEditors[other].path # newPath
    /\ renames' = renames + 1
    /\ codeEditors' = [codeEditors EXCEPT ![ce].path = newPath]
    /\ tabQ' = Append(tabQ, [ce |-> ce, name |-> codeEditors[ce].name, newPath |-> newPath])
    /\ UNCHANGED <<editors, holder, openerVars, spanVars, treeVars, outVars, walkVars>>

\* the UI driver runs the oldest queued rename callback
DriverRename ==
    /\ tabQ # <<>>
    /\ \E e2 \in renameCall(TabbedEditor, Head(tabQ).ce, Head(tabQ).name, Head(tabQ).newPath) :
          /\ editors' = e2.editors
          /\ holder' = e2.holder
    /\ tabQ' = Tail(tabQ)
    /\ UNCHANGED <<codeEditors, renames, openerVars, spanVars, treeVars, outVars, walkVars>>

CloseCurrentEditor ==
    /\ holder.selected # 0
    /\ \E e2 \in RemovePanel(TabbedEditor, holder.selected) :
          /\ editors' = e2.editors
          /\ holder' = e2.holder
    /\ UNCHANGED <<codeEditors, tabQ, renames, openerVars, spanVars, treeVars, outVars, walkVars>>

TabIdle ==
    /\ editors = <<>>
    /\ holder = NoPanels
    /\ codeEditors = <<>>
    /\ tabQ = <<>>
    /\ renames = 0

\* ------------------------------------------------------------------------
\* ProjectOpener.Exec
\* ------------------------------------------------------------------------

ProjectNames == {"p", "q"}

ProjectPaths == {"/x", "/y"}

\* settings.Project
Project == [Name : ProjectNames, Path : ProjectPaths]

\* var proj settings.Project
zeroProject == [Name |-> "", Path |-> ""]

ProjectLists == UNION {[1..n -> Project] : n \in 0..MaxProjects}

\* the value of proj after the range loop of Exec
rangeProjects(ps, txt) ==
    LET hits == {i \in 1..Len(ps) : ps[i].Name = txt}
    IN  IF hits # {} THEN ps[CHOOSE i \in hits : \A j \in hits : i <= j]
        ELSE IF Len(ps) = 0 THEN zeroProject
        ELSE ps[Len(ps)]

Exec ==
    /\ epc = "start"
    /\ epc' = "done"
    /\ LET proj == rangeProjects(projects, nameText)
       IN  IF ~element.projectSetter
           THEN execRet' = <<FALSE, FALSE>> /\ UNCHANGED setCalls
           ELSE IF proj.Name # nameText
           THEN execRet' = <<FALSE, FALSE>> /\ UNCHANGED setCalls
           ELSE execRet' = <<TRUE, FALSE>> /\ setCalls' = Append(setCalls, proj)
    /\ UNCHANGED <<projects, nameText, element, tabVars, spanVars, treeVars, outVars, walkVars>>

OpenerIdle ==
    /\ projects = <<>>
    /\ nameText = ""
    /\ element = [projectSetter |-> FALSE]
    /\ setCalls = <<>>
    /\ execRet = <<>>
    /\ epc = "done"

UiIdle == TabIdle /\ OpenerIdle

\* ------------------------------------------------------------------------
\* Specifications
\* ------------------------------------------------------------------------

\* the project tree after NewProjectTree: the root is expanded, its outline
\* is built, the directories below it are collapsed and loaded once
TreeConstructed(dirs0, pkgs0, order0, files0) ==
    /\ reloadLock = 0
    /\ pc = [g \in Goroutines |-> "none"]
    /\ upath = [g \in Goroutines |-> <<>>]
    /\ driverQ = <<>>
    /\ fsDirs = dirs0
    /\ fsPkgs = pkgs0
    /\ length = dirs0
    /\ attached = [d \in SubDirs |-> FALSE]
    /\ kids = [d \in SubDirs |-> 0]
    /\ toc = NewTOC(RootPath, order0, files0)
    /\ tocSeen = pkgs0[RootPath]
    /\ reloads = 0
    /\ spawned = 0
    /\ clicks = 0
    /\ missed = {}
    /\ dropSeen = 0

SpanInit ==
    /\ UiIdle
    /\ layers \in Stores
    /\ oldLayers = layers
    /\ edits \in Batches
    /\ hpc = "idle"
    /\ TreeConstructed([d \in SubDirs |-> 0], [d \in AllDirs |-> {}], <<>>, <<>>)
    /\ OutlineIdle
    /\ WalkIdle

SpanNext == Applied

SpanSpec == SpanInit /\ [][SpanNext]_vars

TreeInit ==
    /\ UiIdle
    /\ layers = <<>>
    /\ oldLayers = <<>>
    /\ edits = <<>>
    /\ hpc = "idle"
    /\ OutlineIdle
    /\ WalkIdle
    /\ \E files0 \in FileOrders({1}) :
           TreeConstructed([d \in SubDirs |-> 1],
                           [d \in AllDirs |-> IF d = DirB THEN {} ELSE {1}],
                           <<1>>, files0)

TreeNext ==
    \/ \E path \in EventPaths : FsEvent(path)
    \/ \E g \in Goroutines : UpdateAcquire(g)
    \/ \E g \in Goroutines : UpdateBail(g)
    \/ \E g \in Goroutines : UpdateToc(g)
    \/ \E g \in Goroutines : UpdateRelease(g)
    \/ DriverDirsUpdate
    \/ DriverReload
    \/ DriverTocReload
    \/ \E d \in SubDirs : Click(d)

TreeSpec == TreeInit /\ [][TreeNext]_vars

\* the Go scheduler runs every update goroutine that can take a step, and
\* the loop of the UI driver runs every call queued on it
TreeFairness ==
    /\ \A g \in Goroutines :
         /\ WF_vars(UpdateAcquire(g))
         /\ WF_vars(UpdateBail(g))
         /\ WF_vars(UpdateToc(g))
         /\ WF_vars(UpdateRelease(g))
    /\ WF_vars(DriverDirsUpdate)
    /\ WF_vars(DriverReload)
    /\ WF_vars(DriverTocReload)

TreeFairSpec == TreeSpec /\ TreeFairness

\* an outline built by NewTOC for a directory holding any of the packages
TocInit ==
    /\ UiIdle
    /\ layers = <<>>
    /\ oldLayers = <<>>
    /\ edits = <<>>
    /\ hpc = "idle"
    /\ OutlineIdle
    /\ WalkIdle
    /\ \E ps \in SUBSET PkgIds : \E order0 \in Orders(ps) : \E files0 \in FileOrders(ps) :
           TreeConstructed([d \in SubDirs |-> 0],
                           [d \in AllDirs |-> IF d = RootPath THEN ps ELSE {}],
                           order0, files0)

TocNext ==
    \/ \E k \in PkgIds : TocFsChange(k)
    \/ TocReload

TocSpec == TocInit /\ [][TocNext]_vars

\* parsePkg is handed a package of the family
OutlineInit ==
    /\ UiIdle
    /\ layers = <<>>
    /\ oldLayers = <<>>
    /\ edits = <<>>
    /\ hpc = "idle"
    /\ TreeConstructed([d \in SubDirs |-> 0], [d \in AllDirs |-> {}], <<>>, <<>>)
    /\ srcPkg \in Packages
    /\ pkgOrder = <<>>
    /\ outline = NoNode
    /\ opc = "idle"
    /\ WalkIdle

OutlineNext == ParsePkg

OutlineSpec == OutlineInit /\ [][OutlineNext]_vars

\* a highlighter is created for an editor holding a source text
WalkInit ==
    /\ UiIdle
    /\ layers = <<>>
    /\ oldLayers = <<>>
    /\ edits = <<>>
    /\ hpc = "idle"
    /\ TreeConstructed([d \in SubDirs |-> 0], [d \in AllDirs |-> {}], <<>>, <<>>)
    /\ OutlineIdle
    /\ text \in Sources
    /\ syn = NewSyntax({})
    /\ hLayers = <<>>
    /\ lastGood = <<>>
    /\ wpc = "init"

WalkNext ==
    \/ TextChanged
    \/ Apply
    \/ BreakText
    \/ FixText

WalkSpec == WalkInit /\ [][WalkNext]_vars

\* the empty tabbed editor NewTabbedEditor returns
TabInit ==
    /\ layers = <<>>
    /\ oldLayers = <<>>
    /\ edits = <<>>
    /\ hpc = "idle"
    /\ TreeConstructed([d \in SubDirs |-> 0], [d \in AllDirs |-> {}], <<>>, <<>>)
    /\ OutlineIdle
    /\ WalkIdle
    /\ OpenerIdle
    /\ TabIdle

TabNext ==
    \/ \E path \in TabPaths : Open(path)
    \/ \E ce \in 1..MaxEditors, newPath \in TabPaths : Renamed(ce, newPath)
    \/ DriverRename
    \/ CloseCurrentEditor

TabSpec == TabInit /\ [][TabNext]_vars

\* open-project about to be executed on an element, with any settings and
\* any text in its name box
OpenerInit ==
    /\ layers = <<>>
    /\ oldLayers = <<>>
    /\ edits = <<>>
    /\ hpc = "idle"
    /\ TreeConstructed([d \in SubDirs |-> 0], [d \in AllDirs |-> {}], <<>>, <<>>)
    /\ OutlineIdle
    /\ WalkIdle
    /\ TabIdle
    /\ projects \in ProjectLists
    /\ nameText \in ProjectNames \cup {"", "z"}
    /\ element \in [projectSetter : BOOLEAN]
    /\ setCalls = <<>>
    /\ execRet = <<>>
    /\ epc = "start"

OpenerNext == Exec

OpenerSpec == OpenerInit /\ [][OpenerNext]_vars

\* ------------------------------------------------------------------------
\* Properties of the repositioning (SpanSpec)
\* ------------------------------------------------------------------------

\* the positions <<layer, span>> of the layer store before the call
SpanIdx == {<<i, j>> \in (1..Len(oldLayers)) \X (1..2) : j <= Len(oldLayers[i].spans)}

oldSpan(ij) == oldLayers[ij[1]].spans[ij[2]]

newSpan(ij) == layers[ij[1]].spans[ij[2]]

MaxOf(a, b) == IF a >= b THEN a ELSE b

\* n successive calls of moveSpan with the single-edit batches [e1], ..., [en]
RECURSIVE oneByOne(_, _)
oneByOne(s, es) ==
    IF es = <<>> THEN s
    ELSE oneByOne(moveSpan(s, <<Head(es)>>), Tail(es))

\* C1: one call of moveSpan with a whole batch gives the same span as
\* successive calls with the single edits of the batch, in order: an edit
\* beyond the span's end is skipped alone and the later edits still apply.
C1_BatchEqualsSuccessive ==
    hpc = "applied" =>
        \A ij \in SpanIdx : newSpan(ij) = oneByOne(oldSpan(ij), edits)

\* edit k of the batch is reached by the loop of moveSpan for span s
reached(s, es, k) ==
    \A m \in 1..k : ~(es[m].At > moveSpan(s, SubSeq(es, 1, m - 1)).End)

\* C2: after Applied every span has 0 <= Start <= End, and right after an
\* edit with non-zero delta has been applied to a span, the span's End is
\* at least the edit's position.
C2_ExtentsValid ==
    hpc = "applied" =>
        \A ij \in SpanIdx :
            /\ 0 <= newSpan(ij).Start
            /\ newSpan(ij).Start <= newSpan(ij).End
            /\ \A k \in 1..Len(edits) :
                 (reached(oldSpan(ij), edits, k) /\ editDelta(edits[k]) # 0)
                     => moveSpan(oldSpan(ij), SubSeq(edits, 1, k)).End >= edits[k].At
            /\ (Len(edits) = 1 /\ editDelta(edits[1]) # 0 /\ edits[1].At <= oldSpan(ij).End)
                     => newSpan(ij).End >= edits[1].At

\* the first of two deletions ate into a span, whose End was clamped to the
\* position of the edit, and the second one emptied it
C2_Witness ==
    /\ hpc = "applied"
    /\ Len(edits) = 2
    /\ \E ij \in SpanIdx :
         /\ edits[1].At <= oldSpan(ij).End
         /\ oldSpan(ij).End + (edits[1].New - edits[1].Old) < edits[1].At
         /\ oldSpan(ij).Start < oldSpan(ij).End
         /\ edits[2].New < edits[2].Old
         /\ newSpan(ij).Start = newSpan(ij).End

\* C3: a single edit that ends at or before the start of a span shifts the
\* span bodily by delta: Start and End move by delta, the length is kept.
C3_ShiftBodily ==
    (hpc = "applied" /\ Len(edits) = 1) =>
        \A ij \in SpanIdx :
            (edits[1].At + edits[1].Old <= oldSpan(ij).Start) =>
                /\ newSpan(ij).Start = oldSpan(ij).Start + (edits[1].New - edits[1].Old)
                /\ newSpan(ij).End = oldSpan(ij).End + (edits[1].New - edits[1].Old)
                /\ newSpan(ij).End - newSpan(ij).Start = oldSpan(ij).End - oldSpan(ij).Start

\* an insertion strictly before a span has been applied and has moved it
C3_Witness ==
    /\ hpc = "applied"
    /\ Len(edits) = 1
    /\ edits[1].Old = 0
    /\ edits[1].New > 0
    /\ \E ij \in SpanIdx :
         /\ edits[1].At < oldSpan(ij).Start
         /\ newSpan(ij).Start = oldSpan(ij).Start + edits[1].New
         /\ newSpan(ij).End = oldSpan(ij).End + edits[1].New

\* every edit of the batch lies strictly beyond the End of every span
allBeyond ==
    \A k \in 1..Len(edits) : \A ij \in SpanIdx : edits[k].At > oldSpan(ij).End

\* C4: a batch whose edits all lie strictly beyond the End of every span
\* (the empty batch included) leaves every span of every layer unchanged.
C4_EditsAfterAllSpans ==
    (hpc = "applied" /\ allBeyond) => layers = oldLayers

\* a batch of two length-changing edits beyond every span of two layers
C4_Witness ==
    /\ hpc = "applied"
    /\ allBeyond
    /\ Len(edits) = 2
    /\ \A k \in 1..2 : edits[k].New # edits[k].Old
    /\ Len(oldLayers) = 2
    /\ Cardinality(SpanIdx) = 2

\* C5: a single edit with non-zero delta at or before Start moves Start and
\* End by delta, each clamped to the edit position; one after Start and at
\* or before End moves only End, clamped; delta = 0 changes nothing.
C5_InclusiveBoundaries ==
    (hpc = "applied" /\ Len(edits) = 1) =>
        LET e == edits[1]
            d == e.New - e.Old
        IN  \A ij \in SpanIdx :
              LET s == oldSpan(ij)
                  r == newSpan(ij)
              IN  /\ (d # 0 /\ e.At <= s.Start) =>
                        /\ r.Start = MaxOf(s.Start + d, e.At)
                        /\ r.End = MaxOf(s.End + d, e.At)
                  /\ (d # 0 /\ s.Start < e.At /\ e.At <= s.End) =>
                        /\ r.Start = s.Start
                        /\ r.End = MaxOf(s.End + d, e.At)
                  /\ (d = 0) => r = s

\* an insertion exactly at the Start of a span and at the End of another
C5_Witness ==
    /\ hpc = "applied"
    /\ Len(edits) = 1
    /\ edits[1].New > edits[1].Old
    /\ \E ij \in SpanIdx :
         /\ edits[1].At = oldSpan(ij).Start
         /\ newSpan(ij).Start > oldSpan(ij).Start
    /\ \E ij \in SpanIdx :
         /\ edits[1].At = oldSpan(ij).End
         /\ oldSpan(ij).Start < oldSpan(ij).End
         /\ newSpan(ij).Start = oldSpan(ij).Start
         /\ newSpan(ij).End > oldSpan(ij).End

\* C6: Applied hands back as many layers as before, each with its category,
\* its number of spans and its spans in the same order: span j of layer i is
\* span j of layer i of the store before, repositioned.
C6_NeverReclassifies ==
    hpc = "applied" =>
        /\ Len(layers) = Len(oldLayers)
        /\ \A i \in 1..Len(oldLayers) :
             /\ layers[i].cat = oldLayers[i].cat
             /\ Len(layers[i].spans) = Len(oldLayers[i].spans)
             /\ \A j \in 1..Len(oldLayers[i].spans) :
                  layers[i].spans[j] = moveSpan(oldLayers[i].spans[j], edits)

\* a deletion has emptied one of the two spans of a layer of a two-layer store
C6_Witness ==
    /\ hpc = "applied"
    /\ \E i \in 1..Len(oldLayers) :
         /\ Len(oldLayers[i].spans) = 2
         /\ \E j \in 1..2 :
              /\ oldLayers[i].spans[j].Start < oldLayers[i].spans[j].End
              /\ layers[i].spans[j].Start = layers[i].spans[j].End
    /\ layers # oldLayers

\* ------------------------------------------------------------------------
\* Properties of the project tree (TreeSpec)
\* ------------------------------------------------------------------------

\* the update goroutines between acquiring and releasing the gate
holders == {g \in Goroutines : pc[g] \in Holding}

\* C7: under any interleaving of update goroutines at most one of them is
\* between acquiring and releasing the reload gate.
C7_OneReloadInFlight == Cardinality(holders) <= 1

\* one update holds the gate while two more have been started
C7_Witness ==
    /\ Cardinality(holders) = 1
    /\ Cardinality({g \in Goroutines : pc[g] = "start"}) >= 2

\* C8: an update whose select finds the gate taken returns at once: it
\* queues no call on the driver, changes nothing of the tree or the
\* outline, and once returned it never runs again.
C8_DroppedNotQueued ==
    [][\A g \in Goroutines :
          /\ (pc[g] = "start" /\ reloadLock >= ReloadLockCap /\ pc'[g] # "start") =>
                 /\ pc'[g] = "dropped"
                 /\ driverQ' = driverQ
                 /\ reloadLock' = reloadLock
                 /\ dirVars' = dirVars
                 /\ toc' = toc
          /\ (pc[g] = "dropped" => pc'[g] = "dropped")]_vars

\* an update has been dropped while another one waits for its reload
C8_Witness ==
    /\ \E g \in Goroutines : pc[g] = "dropped"
    /\ \E h \in Goroutines : pc[h] = "waitToc"
    /\ driverQ # <<>>

\* what is displayed for a directory differs from the file system
stale(d) == length[d] # fsDirs[d] \/ (attached[d] /\ kids[d] # fsDirs[d])

\* an event of the directory is still to be handled: its update has not yet
\* run p.dirs.update, or the reload of the directory is queued
pending(d) ==
    \/ \E g \in Goroutines : pc[g] \in {"start", "waitDirs"} /\ Dir(upath[g]) = d
    \/ \E i \in 1..Len(driverQ) :
         driverQ[i].kind = "reload" /\ driverQ[i].dir = d /\ driverQ[i].live

\* no update is running and no call is queued
quiescent ==
    /\ \A g \in Goroutines : pc[g] \in {"none", "done", "dropped"}
    /\ driverQ = <<>>

\* an update started after an event had been dropped has acquired the gate
\* and has returned
resynced == dropSeen > 0 /\ \E g \in Goroutines : g > dropSeen /\ pc[g] = "done"

C21_GateCoversReload ==
    [][(/\ driverQ # <<>>
        /\ Head(driverQ).kind \in {"reload", "toc"}
        /\ driverQ' = Tail(driverQ))
           => (reloadLock > 0 /\ pc[Head(driverQ).g] \in Holding)]_vars

\* C22: the gate holds one token for each update between its acquire and
\* its release and none otherwise, so it is free whenever no update is
\* running; an update that finds no other update running acquires it; and
\* every update that acquired the gate returns and releases it.
C22_GateGivenBack ==
    /\ [](reloadLock = Cardinality(holders))
    /\ [][\A g \in Goroutines :
            (pc[g] = "start" /\ holders = {} /\ pc'[g] # "start") => pc'[g] \in Holding]_vars
    /\ \A g \in Goroutines : (pc[g] \in Holding) ~> (pc[g] = "done" /\ reloadLock < ReloadLockCap)

\* an update that reloaded the outline has returned, and a later one whose
\* path lies outside the directory of the outline holds the gate
C22_Witness ==
    /\ tocSeen # {}
    /\ Len(toc.children) > 1
    /\ \E g, h \in Goroutines :
         /\ g < h
         /\ pc[g] = "done"
         /\ pc[h] = "return"
         /\ ~HasPrefix(upath[h], toc.dir)
    /\ reloadLock = 1

\* C10: after any number of Reload calls the root of the outline has
\* exactly one child per package that ParseDir found in the directory.
C10_ReloadIsRebuild ==
    /\ Len(toc.children) = Cardinality(tocSeen)
    /\ \A k \in tocSeen :
         Cardinality({i \in 1..Len(toc.children) : toc.children[i].name = PkgNames[k]}) = 1

\* ------------------------------------------------------------------------
\* Properties of the outline (OutlineSpec)
\* ------------------------------------------------------------------------

\* the group node of the outline with the given name
group(name) ==
    outline.children[CHOOSE i \in 1..Len(outline.children) : outline.children[i].name = name]

\* the indices of the children of a node that have the given name
childrenNamed(n, name) == {i \in 1..Len(n.children) : n.children[i].name = name}

\* the methods the package declares for a type
methodsOn(p, typeName) ==
    {d \in funcDeclsOf(p) : d.decl.Recv.has /\ d.decl.Recv.type = typeName}

\* C11: for a package declaring a type T and a method M on T, with a value
\* or a pointer receiver, the types group has exactly one child named T and
\* that child has exactly one child, M, whichever of the two declarations
\* and whichever file is visited first.
C11_OrderIndependent ==
    opc = "parsed" =>
        \A t \in typeSpecsOf(srcPkg) : \A m \in methodsOn(srcPkg, t.name) :
            /\ Cardinality(childrenNamed(group("types"), t.name)) = 1
            /\ \A i \in childrenNamed(group("types"), t.name) :
                 LET T == group("types").children[i]
                 IN  /\ Len(T.children) = 1
                     /\ T.children[1].name = m.decl.Name
                     /\ T.children[1].pos = m.decl.Pos
                     /\ T.children[1].filename = m.file

\* the nodes of a tree, the root first
RECURSIVE nodesOf(_)
nodesOf(n) ==
    LET RECURSIVE over(_)
        over(cs) == IF cs = <<>> THEN <<>> ELSE nodesOf(Head(cs)) \o over(Tail(cs))
    IN  <<n>> \o over(n.children)

\* C12: in the tree parsePkg builds no two nodes have the same path, and
\* the path of a node is the path of its parent followed by its own name.
C12_PathsUnique ==
    opc = "parsed" =>
        LET ns == nodesOf(outline)
        IN  /\ \A i, j \in 1..Len(ns) : i # j => ns[i].path # ns[j].path
            /\ \A i \in 1..Len(ns) : \A c \in 1..Len(ns[i].children) :
                 ns[i].children[c].path = Append(ns[i].path, ns[i].children[c].name)

\* C13: every type spec of the package, alone in its declaration or one of
\* several of a grouped declaration, is exactly one child of the types
\* group, with the path pkg.types.<name> and its file and position.
C13_EveryTypeListed ==
    opc = "parsed" =>
        \A t \in typeSpecsOf(srcPkg) :
            /\ Cardinality(childrenNamed(group("types"), t.name)) = 1
            /\ \A i \in childrenNamed(group("types"), t.name) :
                 LET T == group("types").children[i]
                 IN  /\ T.path = <<srcPkg.Name, "types", t.name>>
                     /\ T.filename = t.file
                     /\ T.pos = t.pos

\* the nodes of the outline that stand for a function declaration
nodesFor(d) ==
    LET ns == nodesOf(outline)
    IN  {i \in 1..Len(ns) :
            /\ "pos" \in DOMAIN ns[i]
            /\ ns[i].name = d.decl.Name
            /\ ns[i].filename = d.file
            /\ ns[i].pos = d.decl.Pos
            /\ Len(ns[i].path) > 1
            /\ ns[i].path[2] \in {"funcs", "types"}
            /\ ns[i].path # <<srcPkg.Name, "types", ns[i].name>>}

\* C14: every function declaration is exactly one node of the outline: a
\* function a leaf of the funcs group with the path pkg.funcs.<name>, a
\* method a child of the node of its receiver type in the types group with
\* the path pkg.types.<type>.<method>; no method is a child of funcs.
C14_EveryFuncListed ==
    opc = "parsed" =>
        \A d \in funcDeclsOf(srcPkg) :
            /\ Cardinality(nodesFor(d)) = 1
            /\ IF ~d.decl.Recv.has
               THEN \E i \in 1..Len(group("funcs").children) :
                      LET f == group("funcs").children[i]
                      IN  /\ f.name = d.decl.Name
                          /\ f.pos = d.decl.Pos
                          /\ f.filename = d.file
                          /\ f.path = <<srcPkg.Name, "funcs", d.decl.Name>>
                          /\ f.children = <<>>
               ELSE /\ \E i \in 1..Len(group("types").children) :
                         LET T == group("types").children[i]
                         IN  /\ T.name = d.decl.Recv.type
                             /\ \E j \in 1..Len(T.children) :
                                  /\ T.children[j].name = d.decl.Name
                                  /\ T.children[j].pos = d.decl.Pos
                                  /\ T.children[j].path =
                                       <<srcPkg.Name, "types", d.decl.Recv.type, d.decl.Name>>
                    /\ \A i \in 1..Len(group("funcs").children) :
                         ~(group("funcs").children[i].name = d.decl.Name
                           /\ group("funcs").children[i].pos = d.decl.Pos
                           /\ group("funcs").children[i].filename = d.file)

\* the items the tree widget can ask a node of the outline about
itemsOf ==
    LET ns == nodesOf(outline) IN {ns[i].path : i \in 1..Len(ns)}

\* C15: a node of the outline with exactly one child answers Count, Item,
\* NodeAt, ItemIndex and Create with the answers of its only child: the
\* outline root of a directory with one package, and every node parsePkg
\* builds, a group holding a single declaration included; the calls leave
\* the stored children and paths as they are.
C15_SingleChildCollapse ==
    opc = "parsed" =>
        LET ns   == nodesOf(outline)
            root == tocNode([dir |-> RootPath, children |-> <<outline>>])
        IN  /\ skippingAnswers(root, itemsOf) = genericAnswers(outline, itemsOf)
            /\ \A i \in 1..Len(ns) :
                 Len(ns[i].children) = 1 =>
                     genericAnswers(ns[i], itemsOf) = genericAnswers(ns[i].children[1], itemsOf)

\* ------------------------------------------------------------------------
\* Properties of the walk and of the highlighter (WalkSpec)
\* ------------------------------------------------------------------------

\* h.syntax holds the walk of the text of the editor
parsed == wpc # "init" /\ ~syn.err

\* the statements of a tree in the order of the text, nil ones left out
RECURSIVE stmtsOf(_)
stmtsOf(node) ==
    LET RECURSIVE over(_)
        over(list) == IF list = <<>> THEN <<>> ELSE stmtsOf(Head(list)) \o over(Tail(list))
    IN  CASE node.kind = "nil"   -> <<>>
          [] node.kind = "block" -> <<node>> \o over(node.List)
          [] node.kind = "range" -> <<node>> \o stmtsOf(node.Body)
          [] OTHER               -> <<node>>

\* a tree without its statements of unknown kind
RECURSIVE dropUnknown(_)
dropUnknown(node) ==
    CASE node.kind = "block" ->
           LET kept == SelectSeq(node.List, LAMBDA x : x.kind # "unknown")
           IN  [node EXCEPT !.List = [i \in 1..Len(kept) |-> dropUnknown(kept[i])]]
      [] node.kind = "range" -> [node EXCEPT !.Body = dropUnknown(@)]
      [] OTHER -> node

ofKind(node, kind) == SelectSeq(stmtsOf(node), LAMBDA x : x.kind = kind)

\* C16: a statement of unknown kind is only logged: addStmt goes on, every
\* statement of every block is walked (all but the body of the function and
\* the bodies of the range statements by addStmt), the spans are the ones
\* the walk records for the tree without the unknown statements, and each
\* BadStmt is one Bad span.
C16_UnknownDoesNotAbort ==
    parsed =>
        /\ syn.spans = walk([text EXCEPT !.body = dropUnknown(@)]).spans
        /\ Len(syn.log) = Len(ofKind(text.body, "unknown"))
        /\ Len(syn.visits) = Len(stmtsOf(text.body)) - 1 - Len(ofKind(text.body, "range"))
        /\ LET bad == ofKind(text.body, "bad")
           IN  spansOf(syn, Construct("bad")) =
                   [i \in 1..Len(bad) |-> [Start |-> runeOffset(text.wide, bad[i].From),
                                           End   |-> runeOffset(text.wide, bad[i].To)]]

\* an unknown statement stands before a return statement in a block, and
\* the keyword of the return statement is a span
C16_Witness ==
    /\ parsed
    /\ Len(text.body.List) = 2
    /\ text.body.List[1].kind = "unknown"
    /\ text.body.List[2].kind = "return"
    /\ syn.log # <<>>
    /\ spansOf(syn, Construct("keyword")) =
           <<[Start |-> runeOffset(text.wide, text.body.List[2].Return),
              End   |-> runeOffset(text.wide, text.body.List[2].Return) + 6]>>

\* the places of a text as spans: offsets in characters
spansAt(places) ==
    [i \in 1..Len(places) |->
        [Start |-> runeOffset(text.wide, places[i].Pos),
         End   |-> runeOffset(text.wide, places[i].Pos + places[i].Len)]]

\* C17: for a text that parses, with or without two-byte characters before
\* a token, the keyword layer holds the keywords of the text in the order
\* of the text, each span covering exactly the keyword, and the string
\* layer holds the string literals, each span covering exactly the literal.
C17_KeywordsAndStrings ==
    parsed =>
        /\ spansOf(syn, Construct("keyword")) = spansAt(text.kws)
        /\ spansOf(syn, Construct("string")) = spansAt(text.strs)

\* C18: after TextChanged on a text that does not parse, the layers Apply
\* hands to the editor are the ones of the last successful parse.
C18_KeepsLayersOnError ==
    (wpc = "applied" /\ syn.err) => layers = lastGood

\* C19: addBlockStmt returns with the depth it was entered with, the
\* statements of a block nested k blocks deep are walked at depth k, and
\* after the walk the depth is the initial one.
C19_ScopesBalanced ==
    parsed =>
        /\ \A i \in 1..Len(syn.blocks) : syn.blocks[i].out = syn.blocks[i].in
        /\ \A i \in 1..Len(syn.visits) : syn.visits[i].depth = syn.visits[i].lvl
        /\ syn.depth = 0

\* a statement three blocks deep has been walked
C19_Witness ==
    /\ parsed
    /\ \E i \in 1..Len(syn.visits) : syn.visits[i].depth = 3
    /\ Len(syn.blocks) >= 3
    /\ \E i \in 1..Len(syn.blocks) : syn.blocks[i].in = 2 /\ syn.blocks[i].out = 2

\* C20: for every range statement, in each of its three forms and for any
\* number of blanks before the word range, the keyword span recorded after
\* the one of "for" starts at the word range and has length 5.
C20_RangeKeywordExact ==
    parsed =>
        LET kw == spansOf(syn, Construct("keyword"))
            rs == ofKind(text.body, "range")
        IN  \A r \in 1..Len(rs) :
              \E i \in 1..(Len(kw) - 1) :
                /\ kw[i] = [Start |-> runeOffset(text.wide, rs[r].For),
                            End   |-> runeOffset(text.wide, rs[r].For) + 3]
                /\ kw[i + 1] = [Start |-> runeOffset(text.wide, rs[r].rangePos),
                                End   |-> runeOffset(text.wide, rs[r].rangePos) + 5]

\* ------------------------------------------------------------------------
\* Properties of the tabbed editor (TabSpec)
\* ------------------------------------------------------------------------

\* the name an editor's file has now
currentName(ce) == relPath(hiddenPrefix, codeEditors[ce].path)

\* the editors that have a panel
openPanels == {holder.entries[i].panel : i \in 1..Len(holder.entries)}

\* C23: once every queued rename callback has run, the editors map has
\* exactly one entry for each open panel, under the current name of its
\* editor: no entry under an old name and no entry of a removed panel.
C23_EditorsMatchPanels ==
    tabQ = <<>> =>
        /\ \A ce \in openPanels :
              currentName(ce) \in DOMAIN editors /\ editors[currentName(ce)] = ce
        /\ \A n \in DOMAIN editors :
              editors[n] \in openPanels /\ currentName(editors[n]) = n

\* ------------------------------------------------------------------------
\* Properties of open-project (OpenerSpec)
\* ------------------------------------------------------------------------

\* C24: Exec calls SetProject only with an element of settings.Projects()
\* whose Name is the text of the name box; when the target is no
\* projectSetter, no project has that name, the list is empty or the text is
\* empty, it returns (false, false) and does not call SetProject.
C24_ExecSetsListedProject ==
    (epc = "done" /\ execRet # <<>>) =>
        /\ \A i \in 1..Len(setCalls) :
              /\ \E j \in 1..Len(projects) : projects[j] = setCalls[i]
              /\ setCalls[i].Name = nameText
        /\ (\/ ~element.projectSetter
            \/ \A j \in 1..Len(projects) : projects[j].Name # nameText
            \/ projects = <<>>
            \/ nameText = "")
              => (execRet = <<FALSE, FALSE>> /\ setCalls = <<>>)

====
